---- MODULE Spec2Model ----
(***************************************************************************)
(* EcoTrail Gear API: the request handlers of src/main.py over the         *)
(* document store reached through the database module (db,                 *)
(* create_document, get_documents).                                        *)
(*                                                                         *)
(* Representation.                                                         *)
(*   - An Optional[...] parameter is None or Some(v).                      *)
(*   - The text searched by the q filter (q, title, description) is a      *)
(*     sequence of one-character strings, so that the regular expression   *)
(*     search can be computed.  Other strings are TLA+ strings.            *)
(*   - price is a whole number of currency units; rating is in tenths.     *)
(*   - A store collection is the sequence of its documents in insertion    *)
(*     (natural) order; _id is the ObjectId, modelled by the insertion     *)
(*     number.                                                             *)
(*   - resp is the response sent by the step just taken (NoResp when the   *)
(*     step sent none); obs records, for that same request, the facts a    *)
(*     test harness would observe: its arguments, the path taken, the      *)
(*     number of store operations issued and the exception raised, if any. *)
(***************************************************************************)
EXTENDS Integers, Sequences, FiniteSets, TLC

VARIABLES db, product, review, impactstats, lp, resp, obs

vars == <<db, product, review, impactstats, lp, resp, obs>>

(***************************************************************************)
(* Bounds of the model.                                                    *)
(***************************************************************************)
MaxDocs == 2
MaxReviews == 1
QueryDocs == 2

(***************************************************************************)
(* Optional values and Python truthiness.                                  *)
(***************************************************************************)
None == [some |-> FALSE]
Some(x) == [some |-> TRUE, v |-> x]

\* `if s:` for an Optional[str]: None and the empty string are both falsy.
TruthyStr(o) == o.some /\ o.v # ""
\* `if q:` for the searched text.
TruthyText(o) == o.some /\ o.v # <<>>

Range(s) == {s[i] : i \in 1..Len(s)}
Min(a, b) == IF a <= b THEN a ELSE b
Max(a, b) == IF a >= b THEN a ELSE b
Abs(n) == IF n < 0 THEN -n ELSE n

(***************************************************************************)
(* Filter predicate builder: list_products, lines 86-108.                  *)
(***************************************************************************)
\* Mutant: the bounds tested for truth, so that a bound of 0 is dropped.
PriceFilterTruthy(min_price, max_price) ==
    LET lo == IF min_price.some /\ min_price.v # 0 THEN min_price ELSE None
        hi == IF max_price.some /\ max_price.v # 0 THEN max_price ELSE None
    IN  IF lo.some \/ hi.some THEN Some([gte |-> lo, lte |-> hi]) ELSE None

PriceFilter(min_price, max_price) ==
    IF min_price.some \/ max_price.some
    THEN Some([gte |-> min_price, lte |-> max_price])
    ELSE None

\* Mutant: the season constraint built from the activity parameter.
BuildFilterSeasonSlip(a) ==
    [ or                      |-> IF TruthyText(a.q) THEN Some(a.q.v) ELSE None,
      category                |-> IF TruthyStr(a.category) THEN Some(a.category.v) ELSE None,
      activity_types          |-> IF TruthyStr(a.activity) THEN Some(a.activity.v) ELSE None,
      seasons                 |-> IF TruthyStr(a.activity) THEN Some(a.activity.v) ELSE None,
      sustainability_features |-> IF TruthyStr(a.sustainable) THEN Some(a.sustainable.v) ELSE None,
      price                   |-> PriceFilter(a.min_price, a.max_price) ]

BuildFilter(a) ==
    [ or                      |-> IF TruthyText(a.q) THEN Some(a.q.v) ELSE None,
      category                |-> IF TruthyStr(a.category) THEN Some(a.category.v) ELSE None,
      activity_types          |-> IF TruthyStr(a.activity) THEN Some(a.activity.v) ELSE None,
      seasons                 |-> IF TruthyStr(a.season) THEN Some(a.season.v) ELSE None,
      sustainability_features |-> IF TruthyStr(a.sustainable) THEN Some(a.sustainable.v) ELSE None,
      price                   |-> PriceFilter(a.min_price, a.max_price) ]

(***************************************************************************)
(* Sort key resolver: list_products, lines 110-117.                        *)
(***************************************************************************)
\* Mutant: highest_rated ordered by rating ascending.
SortSpecRatingAscending(sort) ==
    IF sort = "price_asc" THEN Some([key |-> "price", dir |-> 1])
    ELSE IF sort = "price_desc" THEN Some([key |-> "price", dir |-> -1])
    ELSE IF sort = "highest_rated" THEN Some([key |-> "rating", dir |-> 1])
    ELSE None

SortSpec(sort) ==
    IF sort = "price_asc" THEN Some([key |-> "price", dir |-> 1])
    ELSE IF sort = "price_desc" THEN Some([key |-> "price", dir |-> -1])
    ELSE IF sort = "highest_rated" THEN Some([key |-> "rating", dir |-> -1])
    ELSE None

(***************************************************************************)
(* The store's evaluation of a filter document.                            *)
(***************************************************************************)
Lower(c) == CASE c = "A" -> "a" [] c = "B" -> "b" [] OTHER -> c

\* {"$regex": pat, "$options": "i"}: an unanchored, case-insensitive regular
\* expression search.  Over the model's alphabet the only metacharacter is
\* ".", which matches any one character.
RegexSearch(pat, s) ==
    \E i \in 0..(Len(s) - Len(pat)) :
        \A j \in 1..Len(pat) : pat[j] = "." \/ Lower(pat[j]) = Lower(s[i + j])

\* A field that is null is no string: the regular expression does not match.
RegexField(pat, field) == field.some /\ RegexSearch(pat, field.v)

OrMatches(pat, d) == RegexSearch(pat, d.title) \/ RegexField(pat, d.description)

PriceMatches(pf, d) ==
    /\ (pf.gte.some => d.price >= pf.gte.v)
    /\ (pf.lte.some => d.price <= pf.lte.v)

Matches(f, d) ==
    /\ (f.or.some => OrMatches(f.or.v, d))
    /\ (f.category.some => d.category = f.category.v)
    /\ (f.activity_types.some => f.activity_types.v \in Range(d.activity_types))
    /\ (f.seasons.some => f.seasons.v \in Range(d.seasons))
    /\ (f.sustainability_features.some =>
            f.sustainability_features.v \in Range(d.sustainability_features))
    /\ (f.price.some => PriceMatches(f.price.v, d))

\* collection.find(filter_q), in natural order.
Find(coll, f) == SelectSeq(coll, LAMBDA d : Matches(f, d))

\* collection.count_documents(filter_q).
CountDocuments(coll, f) == Len(Find(coll, f))

Perms(n) == {p \in [1..n -> 1..n] : \A i, j \in 1..n : i # j => p[i] # p[j]}

InOrder(spec, x, y) ==
    IF spec.dir = 1 THEN x[spec.key] <= y[spec.key] ELSE x[spec.key] >= y[spec.key]

\* cursor.sort(sort_spec): every arrangement of the matched documents that is
\* ordered by the key; the store leaves the order of equal keys open.
\* Without a sort the cursor keeps the natural order.
SortedOrders(docs, sort_spec) ==
    IF ~sort_spec.some THEN {docs}
    ELSE { [i \in 1..Len(docs) |-> docs[p[i]]] : p \in
             {p \in Perms(Len(docs)) :
                 \A i \in 1..(Len(docs) - 1) :
                     InOrder(sort_spec.v, docs[p[i]], docs[p[i + 1]])} }

\* cursor.skip(n).limit(m), for n >= 0: limit 0 means no limit, and a
\* negative limit returns a single batch of at most -m documents.
SkipLimit(docs, n, m) ==
    LET rest == SubSeq(docs, n + 1, Len(docs))
    IN  IF m = 0 THEN rest ELSE SubSeq(rest, 1, Min(Abs(m), Len(rest)))

(***************************************************************************)
(* Document shape normalizer: list_products line 186, get_reviews line 215.*)
(***************************************************************************)
Normalize(doc) ==
    [k \in (DOMAIN doc \ {"_id"}) \cup {"id"} |->
        IF k = "id" THEN ToString(doc._id) ELSE doc[k]]

NormalizeAll(docs) == [i \in 1..Len(docs) |-> Normalize(docs[i])]

(***************************************************************************)
(* Fallback dataset provider: list_products, lines 122-176.                *)
(***************************************************************************)
demo_items ==
    << [ id |-> "demo-1", title |-> "Evergreen Ultralight Tent", price |-> 349,
         sale_price |-> Some(299), currency |-> "USD",
         category |-> "Carbon-Neutral Camping Equipment",
         rating |-> 47, review_count |-> 126, eco_badge |-> "Carbon Neutral",
         sustainability_features |-> <<"carbon-neutral", "recycled">> ],
       [ id |-> "demo-2", title |-> "TrailWave Recycled Fleece", price |-> 129,
         sale_price |-> None, currency |-> "USD",
         category |-> "Recycled Material Hiking Gear",
         rating |-> 45, review_count |-> 342, eco_badge |-> "Recycled Materials",
         sustainability_features |-> <<"recycled">> ],
       [ id |-> "demo-3", title |-> "SunSpark Solar Charger", price |-> 99,
         sale_price |-> Some(89), currency |-> "USD",
         category |-> "Renewable Energy Outdoor Accessories",
         rating |-> 42, review_count |-> 88, eco_badge |-> "Renewable Energy",
         sustainability_features |-> <<"renewable">> ] >>

\* Python's seq[start:end]: a negative index counts from the end, and both
\* indices are clamped to the sequence.
PyIndex(i, n) == IF i < 0 THEN Max(i + n, 0) ELSE Min(i, n)

PySlice(seq, start, end) ==
    SubSeq(seq, PyIndex(start, Len(seq)) + 1, PyIndex(end, Len(seq)))

\* Mutant: the category filter applied to the demo items.
DemoPageFiltered(a) ==
    LET start == (a.page - 1) * a.page_size
        end   == start + a.page_size
        kept  == SelectSeq(demo_items,
                     LAMBDA d : TruthyStr(a.category) => d.category = a.category.v)
    IN  PySlice(kept, start, end)

\* Lines 173-176: the page of the demo items; no filter parameter is read.
DemoPage(a) ==
    LET start == (a.page - 1) * a.page_size
        end   == start + a.page_size
    IN  PySlice(demo_items, start, end)

(***************************************************************************)
(* Responses.                                                              *)
(***************************************************************************)
NoResp == [op |-> "none"]
NoObs == [op |-> "none"]

\* raise HTTPException(status_code=500, detail=str(e))
HTTPException(op, detail) == [op |-> op, status |-> 500, detail |-> detail]

\* ProductListResponse(items=..., total=..., page=page, page_size=page_size)
ProductListResponse(items, total, a) ==
    [op |-> "list_products", status |-> 200, items |-> items, total |-> total,
     page |-> a.page, page_size |-> a.page_size]

Observed(op, a, path, ops, raised, nCount) ==
    [op |-> op, args |-> a, path |-> path, ops |-> ops, raised |-> raised,
     nCount |-> nCount]

(***************************************************************************)
(* Failures of the store.                                                  *)
(***************************************************************************)
StoreError == "store operation failed"
Unavailable == "Database not available"
SkipError == "The 'skip' parameter must be >= 0"

\* A store operation returns or raises.
Outcomes == {None, Some(StoreError)}

\* Mutant: an empty store taken for no store.
HasCollectionNonEmpty == db /\ product # <<>>

\* `db["product"] if db else None`, line 120: whether a collection is at hand.
HasCollection == db

\* The List Products request under observation: not yet sent, counted (its
\* count is back, its fetch is not), or answered.  list_products writes
\* nothing, so one request per behaviour loses no behaviour of the store.
Idle == [pc |-> "idle"]
Done == [pc |-> "done"]

(***************************************************************************)
(* list_products, lines 72-182: build the predicate and the ordering, take *)
(* the fallback path when no store is configured, else count the matching  *)
(* documents.  The cursor of line 179 is lazy: nothing is fetched yet.     *)
(***************************************************************************)
ListFallback(a) ==
    /\ resp' = ProductListResponse(DemoPage(a), Len(demo_items), a)
    /\ obs' = Observed("list_products", a, "fallback", 0, None, 0)
    /\ lp' = Done

ListCountRaised(a, msg) ==
    /\ resp' = HTTPException("list_products", msg)
    /\ obs' = Observed("list_products", a, "store", 1, Some(msg), Len(product))
    /\ lp' = Done

\* Mutant: the count taken without the predicate.
ListCountedUnfiltered(a) ==
    /\ lp' = [pc |-> "counted", args |-> a, total |-> Len(product),
              nCount |-> Len(product)]
    /\ resp' = NoResp
    /\ obs' = NoObs

ListCounted(a) ==
    /\ lp' = [pc |-> "counted", args |-> a,
              total |-> CountDocuments(product, BuildFilter(a)),
              nCount |-> Len(product)]
    /\ resp' = NoResp
    /\ obs' = NoObs

ListCount(Args) ==
    /\ lp.pc = "idle"
    /\ \E a \in Args :
          IF ~HasCollection
          THEN ListFallback(a)
          ELSE \E out \in Outcomes :
                  IF out.some THEN ListCountRaised(a, out.v) ELSE ListCounted(a)
    /\ UNCHANGED <<db, product, review, impactstats>>

(***************************************************************************)
(* list_products, lines 183-190: window the cursor, fetch, normalize.      *)
(***************************************************************************)
ListFetchRaised(msg, ops) ==
    /\ resp' = HTTPException("list_products", msg)
    /\ obs' = Observed("list_products", lp.args, "store", ops, Some(msg), lp.nCount)

\* Mutant: the cursor skipped but not limited.
WindowOfNoLimit(order, a) == SkipLimit(order, (a.page - 1) * a.page_size, 0)

\* Line 183: cursor.skip((page - 1) * page_size).limit(page_size).
WindowOf(order, a) == SkipLimit(order, (a.page - 1) * a.page_size, a.page_size)

ListFetched(order) ==
    LET a == lp.args
        window == WindowOf(order, a)
    IN  /\ resp' = ProductListResponse(NormalizeAll(window), lp.total, a)
        /\ obs' = Observed("list_products", a, "store", 2, None, lp.nCount)

ListFetch ==
    /\ lp.pc = "counted"
    /\ IF (lp.args.page - 1) * lp.args.page_size < 0
       THEN ListFetchRaised(SkipError, 1)
       ELSE \E out \in Outcomes :
               IF out.some
               THEN ListFetchRaised(out.v, 2)
               ELSE \E order \in SortedOrders(Find(product, BuildFilter(lp.args)),
                                              SortSpec(lp.args.sort)) :
                       ListFetched(order)
    /\ lp' = Done
    /\ UNCHANGED <<db, product, review, impactstats>>

(***************************************************************************)
(* The database module: create_document and get_documents.                 *)
(***************************************************************************)
\* insert(collection, document) -> the collection with the document added
\* under a fresh identity.
CreateDocument(coll, data) ==
    Append(coll, [k \in DOMAIN data \cup {"_id"} |->
                     IF k = "_id" THEN Len(coll) + 1 ELSE data[k]])

\* find(collection, predicate, limit?) -> the matching documents; the
\* predicate is given by the set of documents it selects, and no limit by 0.
GetDocuments(coll, selected, limit) ==
    LET found == SelectSeq(coll, LAMBDA d : d \in selected)
    IN  IF limit = 0 THEN found ELSE SubSeq(found, 1, Min(limit, Len(found)))

(***************************************************************************)
(* create_product, lines 62-68.                                            *)
(***************************************************************************)
Created(op, coll) == [op |-> op, status |-> 201, id |-> ToString(coll[Len(coll)]._id)]

\* Mutant: the exception swallowed and an empty identifier returned.
CreateRaisedSwallowed(op, msg, ops) ==
    /\ resp' = [op |-> op, status |-> 201, id |-> "None"]
    /\ obs' = Observed(op, None, "store", ops, Some(msg), 0)

\* Lines 67-68 and 203-204.
CreateRaised(op, msg, ops) ==
    /\ resp' = HTTPException(op, msg)
    /\ obs' = Observed(op, None, "store", ops, Some(msg), 0)

CreateProduct(Payloads) ==
    /\ \E p \in Payloads :
          IF ~db
          THEN /\ CreateRaised("create_product", Unavailable, 0)
               /\ UNCHANGED product
          ELSE \E out \in Outcomes :
                  IF out.some
                  THEN /\ CreateRaised("create_product", out.v, 1)
                       /\ UNCHANGED product
                  ELSE /\ Len(product) < MaxDocs
                       /\ product' = CreateDocument(product, p)
                       /\ resp' = Created("create_product", product')
                       /\ obs' = Observed("create_product", None, "store", 1, None, 0)
    /\ UNCHANGED <<db, review, impactstats, lp>>

(***************************************************************************)
(* create_review, lines 198-204.                                           *)
(***************************************************************************)
CreateReview(Payloads) ==
    /\ \E r \in Payloads :
          IF ~db
          THEN /\ CreateRaised("create_review", Unavailable, 0)
               /\ UNCHANGED review
          ELSE \E out \in Outcomes :
                  IF out.some
                  THEN /\ CreateRaised("create_review", out.v, 1)
                       /\ UNCHANGED review
                  ELSE /\ Len(review) < MaxReviews
                       /\ review' = CreateDocument(review, r)
                       /\ resp' = Created("create_review", review')
                       /\ obs' = Observed("create_review", None, "store", 1, None, 0)
    /\ UNCHANGED <<db, product, impactstats, lp>>

(***************************************************************************)
(* get_reviews, lines 207-218.                                             *)
(***************************************************************************)
\* {"product_id": product_id, "ratings.sustainability": {"$gte": min_rating}}
ReviewMatches(product_id, min_rating, d) ==
    /\ d.product_id = product_id
    /\ (min_rating.some =>
           /\ "sustainability" \in DOMAIN d.ratings
           /\ d.ratings["sustainability"] >= min_rating.v)

GetReviews(ProductIds, MinRatings) ==
    /\ \E product_id \in ProductIds, min_rating \in MinRatings :
          IF ~db
          THEN /\ resp' = HTTPException("get_reviews", Unavailable)
               /\ obs' = Observed("get_reviews", None, "store", 0, Some(Unavailable), 0)
          ELSE \E out \in Outcomes :
                  IF out.some
                  THEN /\ resp' = HTTPException("get_reviews", out.v)
                       /\ obs' = Observed("get_reviews", None, "store", 1, out, 0)
                  ELSE /\ resp' = [op |-> "get_reviews", status |-> 200,
                                   items |-> NormalizeAll(GetDocuments(review,
                                       {d \in Range(review) :
                                           ReviewMatches(product_id, min_rating, d)}, 0))]
                       /\ obs' = Observed("get_reviews", None, "store", 1, None, 0)
    /\ UNCHANGED <<db, product, review, impactstats, lp>>

(***************************************************************************)
(* get_impact, lines 33-47.                                                *)
(*                                                                         *)
(* A stored field is absent from the document, or holds an int n, a float  *)
(* (n tenths), a string spelling an int n, a string spelling a float       *)
(* (n tenths), or null.  carbon_offset_kg is held in tenths.               *)
(***************************************************************************)
Absent == [t |-> "absent"]

Trunc10(n) == IF n >= 0 THEN n \div 10 ELSE -((-n) \div 10)

\* int(x): truncates a float, parses a string that spells an int, and
\* raises on any other string and on None.
IntRaises(x) == x.t \in {"floatstr", "null"}
IntOf(x) == IF x.t = "float" THEN Trunc10(x.n) ELSE x.n

\* float(x), in tenths: raises on None only.
FloatRaises(x) == x.t = "null"
FloatOf(x) == IF x.t \in {"int", "intstr"} THEN 10 * x.n ELSE x.n

\* doc.get(key, default)
Get(doc, key, default) == IF doc[key].t = "absent" THEN default ELSE doc[key]

ImpactResponse(trees, bottles, carbon) ==
    [op |-> "get_impact", status |-> 200, trees_planted |-> trees,
     bottles_recycled |-> bottles, carbon_offset_kg |-> carbon]

\* Line 47: the fallback demo values.
ImpactFallback == ImpactResponse(128450, 9723450, 6543215)

\* Mutant: no record read answered with the field defaults.
ImpactFromDocsDefaults(docs) ==
    IF docs = <<>> THEN ImpactResponse(0, 0, 0)
    ELSE LET doc == docs[1]
             trees   == Get(doc, "trees_planted", [t |-> "int", n |-> 0])
             bottles == Get(doc, "bottles_recycled", [t |-> "int", n |-> 0])
             carbon  == Get(doc, "carbon_offset_kg", [t |-> "float", n |-> 0])
         IN  IF IntRaises(trees) \/ IntRaises(bottles) \/ FloatRaises(carbon)
             THEN ImpactFallback
             ELSE ImpactResponse(IntOf(trees), IntOf(bottles), FloatOf(carbon))

\* Lines 36-47: the response for the documents read; a conversion that
\* raises is caught and answered with the fallback.
ImpactFromDocs(docs) ==
    IF docs = <<>> THEN ImpactFallback
    ELSE LET doc == docs[1]
             trees   == Get(doc, "trees_planted", [t |-> "int", n |-> 0])
             bottles == Get(doc, "bottles_recycled", [t |-> "int", n |-> 0])
             carbon  == Get(doc, "carbon_offset_kg", [t |-> "float", n |-> 0])
         IN  IF IntRaises(trees) \/ IntRaises(bottles) \/ FloatRaises(carbon)
             THEN ImpactFallback
             ELSE ImpactResponse(IntOf(trees), IntOf(bottles), FloatOf(carbon))

GetImpact ==
    /\ IF ~db
       THEN /\ resp' = ImpactFallback
            /\ obs' = Observed("get_impact", None, "store", 0, Some(Unavailable), 0)
       ELSE \E out \in Outcomes :
               IF out.some
               THEN /\ resp' = ImpactFallback
                    /\ obs' = Observed("get_impact", None, "store", 1, out, 0)
               ELSE /\ resp' = ImpactFromDocs(GetDocuments(impactstats, Range(impactstats), 1))
                    /\ obs' = Observed("get_impact", None, "store", 1, None, 0)
    /\ UNCHANGED <<db, product, review, impactstats, lp>>

(***************************************************************************)
(* Inputs.                                                                 *)
(***************************************************************************)
Sorts == {"relevance", "price_asc", "price_desc", "newest", "best_sellers",
          "highest_rated", "most_sustainable"}

\* Product payloads of the service specification: prices and ratings run
\* in different orders, and two categories.
Payload(title, description, category, activity_types, seasons, features, price, rating) ==
    [title |-> title, description |-> description, category |-> category,
     activity_types |-> activity_types, seasons |-> seasons,
     sustainability_features |-> features, price |-> price, rating |-> rating]

ServicePayloads ==
    { Payload(<<"a">>, None, "tents", <<>>, <<>>, <<>>, 2, 10),
      Payload(<<"b">>, None, "packs", <<>>, <<>>, <<>>, 1, 30),
      Payload(<<"A">>, None, "tents", <<>>, <<>>, <<>>, 3, 20) }

\* All the arguments of list_products but the listed ones absent or default.
ListArgs(Categories, SortModes, Pages, Sizes) ==
    [q : {None}, category : Categories, activity : {None}, season : {None},
     sustainable : {None}, min_price : {None}, max_price : {None},
     sort : SortModes, page : Pages, page_size : Sizes]

ServiceArgs ==
    ListArgs({None, Some("tents")}, {"relevance", "price_desc"}, 1..2, 1..2)

PagingArgs == ListArgs({None, Some("tents")}, Sorts, 0..3, -1..2)

ReviewPayloads ==
    { [product_id |-> "1", ratings |-> [sustainability |-> 4]],
      [product_id |-> "1", ratings |-> [comfort |-> 3]] }

ProductIds == {"1", "2"}
MinRatings == {None, Some(4), Some(5)}

(***************************************************************************)
(* The service: every handler, requests of different clients interleaved.  *)
(***************************************************************************)
Init ==
    /\ db \in BOOLEAN
    /\ product = <<>>
    /\ review = <<>>
    /\ impactstats = <<>>
    /\ lp = Idle
    /\ resp = NoResp
    /\ obs = NoObs

list_products_count == ListCount(ServiceArgs)
list_products_fetch == ListFetch
create_product == CreateProduct(ServicePayloads)
create_review == CreateReview(ReviewPayloads)
get_reviews == GetReviews(ProductIds, MinRatings)
get_impact == GetImpact

Next ==
    \/ list_products_count
    \/ list_products_fetch
    \/ create_product
    \/ create_review
    \/ get_reviews
    \/ get_impact

Spec == Init /\ [][Next]_vars

(***************************************************************************)
(* Paging and sorting: List Products against a store that other clients'   *)
(* Create Product requests grow.                                           *)
(***************************************************************************)
list_products_count_paging == ListCount(PagingArgs)

NextPaging ==
    \/ list_products_count_paging
    \/ list_products_fetch
    \/ create_product

SpecPaging == Init /\ [][NextPaging]_vars

(***************************************************************************)
(* The filter predicate: List Products with every combination of the       *)
(* filter parameters, against every store of at most QueryDocs products.   *)
(***************************************************************************)
QueryPayloads ==
    { Payload(<<"A", "b">>, None, "tents", <<"hike">>, <<"summer">>, <<"recycled">>, 0, 47),
      Payload(<<"b">>, Some(<<"a", ".">>), "packs", <<>>, <<"summer", "winter">>, <<>>, 2, 0),
      Payload(<<>>, None, "", <<"hike", "ski">>, <<>>, <<"solar", "recycled">>, 3, 20),
      Payload(<<"b", "a">>, Some(<<>>), "tents", <<"ski">>, <<"winter">>, <<"solar">>, 1, 50) }

QueryArgs ==
    [q : {None, Some(<<>>), Some(<<"a">>), Some(<<".">>), Some(<<"A", "B">>)},
     category : {None, Some(""), Some("tents")},
     activity : {None, Some(""), Some("hike")},
     season : {None, Some(""), Some("summer")},
     sustainable : {None, Some(""), Some("recycled")},
     min_price : {None, Some(0), Some(2)},
     max_price : {None, Some(0), Some(2)},
     sort : {"relevance"}, page : {1}, page_size : {12}]

\* The stores that n or fewer Create Product requests leave behind.
RECURSIVE StoresOf(_, _)
StoresOf(Payloads, n) ==
    IF n = 0 THEN {<<>>}
    ELSE LET S == StoresOf(Payloads, n - 1)
         IN  S \cup {CreateDocument(s, p) : s \in {t \in S : Len(t) = n - 1}, p \in Payloads}

InitQuery ==
    /\ db = TRUE
    /\ product \in StoresOf(QueryPayloads, QueryDocs)
    /\ review = <<>>
    /\ impactstats = <<>>
    /\ lp = Idle
    /\ resp = NoResp
    /\ obs = NoObs

list_products_count_query == ListCount(QueryArgs)

NextQuery ==
    \/ list_products_count_query
    \/ list_products_fetch

SpecQuery == InitQuery /\ [][NextQuery]_vars

(***************************************************************************)
(* The fallback path: no store is configured.                              *)
(***************************************************************************)
FallbackArgs ==
    [q : {None, Some(<<>>), Some(<<"a">>)},
     category : {None, Some(""), Some("tents"), Some("Recycled Material Hiking Gear")},
     activity : {None, Some("hike")},
     season : {None, Some("summer")},
     sustainable : {None, Some("recycled")},
     min_price : {None, Some(0), Some(100)},
     max_price : {None, Some(0), Some(100)},
     sort : Sorts, page : {1}, page_size : {12}]

InitFallback ==
    /\ db = FALSE
    /\ product = <<>>
    /\ review = <<>>
    /\ impactstats = <<>>
    /\ lp = Idle
    /\ resp = NoResp
    /\ obs = NoObs

list_products_fallback == ListCount(FallbackArgs)

NextFallback == list_products_fallback

SpecFallback == InitFallback /\ [][NextFallback]_vars

(***************************************************************************)
(* Impact stats: every stored record, store configured or not.             *)
(***************************************************************************)
ImpactValues ==
    { Absent, [t |-> "int", n |-> 5], [t |-> "float", n |-> 27],
      [t |-> "intstr", n |-> 7], [t |-> "floatstr", n |-> 15], [t |-> "null"] }

ImpactDocs ==
    [trees_planted : ImpactValues, bottles_recycled : ImpactValues,
     carbon_offset_kg : ImpactValues]

ImpactStores ==
    {<<>>} \cup {<<d>> : d \in ImpactDocs}
           \cup {<<d, [trees_planted |-> [t |-> "int", n |-> 1],
                       bottles_recycled |-> [t |-> "int", n |-> 2],
                       carbon_offset_kg |-> [t |-> "float", n |-> 35]]>> : d \in ImpactDocs}

InitImpact ==
    /\ db \in BOOLEAN
    /\ product = <<>>
    /\ review = <<>>
    /\ impactstats \in IF db THEN ImpactStores ELSE {<<>>}
    /\ lp = Idle
    /\ resp = NoResp
    /\ obs = NoObs

NextImpact == get_impact

SpecImpact == InitImpact /\ [][NextImpact]_vars

(***************************************************************************)
(* Properties.                                                             *)
(*                                                                         *)
(* The properties read the response just sent (resp), what was observed of *)
(* its request (obs) and the store as it stands when the response is sent. *)
(* Selected states the predicate in the words of the specification; it is  *)
(* what the filter document of BuildFilter, evaluated by the store, is     *)
(* compared with.                                                          *)
(***************************************************************************)
ListAnswered == resp.op = "list_products" /\ obs.op = "list_products"
ListOk == ListAnswered /\ resp.status = 200
StoreListOk == ListOk /\ obs.path = "store"

Given(o) == o.some /\ o.v # ""
GivenText(o) == o.some /\ Len(o.v) > 0
Contains(seq, x) == \E i \in 1..Len(seq) : seq[i] = x

PriceInRange(a, d) ==
    /\ (a.min_price.some => a.min_price.v <= d.price)
    /\ (a.max_price.some => d.price <= a.max_price.v)

SelectedButPriceAndText(a, d) ==
    /\ (Given(a.category) => d.category = a.category.v)
    /\ (Given(a.activity) => Contains(d.activity_types, a.activity.v))
    /\ (Given(a.season) => Contains(d.seasons, a.season.v))
    /\ (Given(a.sustainable) => Contains(d.sustainability_features, a.sustainable.v))

TextSelected(a, d) ==
    GivenText(a.q) =>
        \/ RegexSearch(a.q.v, d.title)
        \/ (d.description.some /\ RegexSearch(a.q.v, d.description.v))

Selected(a, d) ==
    /\ TextSelected(a, d)
    /\ SelectedButPriceAndText(a, d)
    /\ PriceInRange(a, d)

\* The positions, among the first n documents of the product collection, of
\* the documents the arguments select.
SelectedAt(a, n) == {i \in 1..n : Selected(a, product[i])}
NSelected(a, n) == Cardinality(SelectedAt(a, n))

ItemIds == [i \in 1..Len(resp.items) |-> resp.items[i].id]
IdsOf(docs) == [i \in 1..Len(docs) |-> ToString(docs[i]._id)]

WindowSize(N, p, s) == Min(s, Max(0, N - (p - 1) * s))

\* C1, as claimed: whatever integers page and page_size are, a successful List
\* Products response holds min(s, max(0, N - (p-1)*s)) items and total = N,
\* N being the number of matching documents (3 on the fallback path), and
\* echoes page and page_size.
C1_AnyWindow ==
    (ListOk /\ (obs.path = "store" => obs.nCount = Len(product))) =>
        LET a == obs.args
            N == IF obs.path = "fallback" THEN 3 ELSE NSelected(a, Len(product))
        IN  /\ Len(resp.items) = WindowSize(N, a.page, a.page_size)
            /\ resp.total = N
            /\ resp.page = a.page /\ resp.page_size = a.page_size

\* C1, amended: for page >= 1 and page_size >= 1 the response holds
\* min(s, max(0, N - (p-1)*s)) items, N being the number of documents that
\* match when the windowed fetch runs (3 on the fallback path); for every page
\* and page_size its total is the number of documents that match when the
\* count runs (3 on the fallback path), and page and page_size are echoed.
C1_Pagination ==
    ListOk =>
        LET a == obs.args
            atFetch == IF obs.path = "fallback" THEN 3 ELSE NSelected(a, Len(product))
            atCount == IF obs.path = "fallback" THEN 3 ELSE NSelected(a, obs.nCount)
        IN  /\ (a.page >= 1 /\ a.page_size >= 1 =>
                   Len(resp.items) = WindowSize(atFetch, a.page, a.page_size))
            /\ resp.total = atCount
            /\ resp.page = a.page /\ resp.page_size = a.page_size

C1_Witness ==
    /\ StoreListOk
    /\ obs.args.page = 2 /\ obs.args.page_size = 1
    /\ resp.total = 2 /\ Len(resp.items) = 1

\* C2: with no store configured, List Products with page 1 and page_size 12
\* answers the three demo items demo-1, demo-2, demo-3 in that order with
\* total 3, whatever the filter and sort parameters are, issuing no store
\* operation and raising no error.
C2_FallbackIgnoresFilters ==
    (ListAnswered /\ ~db /\ obs.args.page = 1 /\ obs.args.page_size = 12) =>
        /\ resp.status = 200
        /\ ItemIds = <<"demo-1", "demo-2", "demo-3">>
        /\ resp.total = 3
        /\ obs.ops = 0
        /\ ~obs.raised.some

C2_Witness ==
    /\ ListOk /\ ~db
    /\ obs.args.category = Some("Recycled Material Hiking Gear")
    /\ obs.args.q = Some(<<"a">>)
    /\ obs.args.max_price = Some(0)
    /\ obs.args.sort = "price_desc"
    /\ Len(resp.items) = 3

IsDemo(items) == \E i \in 1..Len(items) : \E j \in 1..Len(demo_items) : items[i].id = demo_items[j].id

\* C3, as claimed: with a store connected that holds no matching product, List
\* Products answers items = [] and total = 0 and never an error (a failure
\* of the store itself set aside).
C3_EmptyNeverErrors ==
    (/\ ListAnswered /\ db
     /\ NSelected(obs.args, Len(product)) = 0
     /\ obs.raised # Some(StoreError)) =>
        /\ resp.status = 200
        /\ resp.items = <<>>
        /\ resp.total = 0

\* C3, amended: the fallback path is taken exactly when no store is connected;
\* with a store connected the count is issued and the demo records are never
\* returned, and when the store holds no matching product, the offset
\* (page - 1) * page_size is not negative and no store operation fails, the
\* response is items = [] with total = 0.
C3_FallbackOnlyWithoutStore ==
    ListAnswered =>
        /\ (obs.path = "fallback") = (~db)
        /\ (db => obs.ops >= 1)
        /\ (db /\ resp.status = 200 => ~IsDemo(resp.items))
        /\ (/\ db
            /\ NSelected(obs.args, Len(product)) = 0
            /\ (obs.args.page - 1) * obs.args.page_size >= 0
            /\ obs.raised # Some(StoreError)) =>
                /\ resp.status = 200
                /\ resp.items = <<>>
                /\ resp.total = 0

C3_Witness ==
    /\ StoreListOk /\ db
    /\ product = <<>>
    /\ resp.items = <<>> /\ resp.total = 0

Returned(d) == \E i \in 1..Len(resp.items) : resp.items[i].id = ToString(d._id)
Stored == {product[i] : i \in 1..Len(product)}

\* The predicate of C4 as claimed: a parameter that is present, the empty
\* string included, constrains the documents.
SelectedWhenPresent(a, d) ==
    /\ TextSelected(a, d)
    /\ (a.category.some => d.category = a.category.v)
    /\ (a.activity.some => Contains(d.activity_types, a.activity.v))
    /\ (a.season.some => Contains(d.seasons, a.season.v))
    /\ (a.sustainable.some => Contains(d.sustainability_features, a.sustainable.v))
    /\ PriceInRange(a, d)

\* C4, as claimed: the documents List Products returns are exactly those that
\* satisfy the constraint of every parameter that is present (category:
\* equality; activity, season, sustainable: membership).
C4_PresentMeansConstrained ==
    StoreListOk => \A d \in Stored : Returned(d) = SelectedWhenPresent(obs.args, d)

\* C4, amended: the predicate is the logical AND of exactly the constraints of
\* the parameters that are present and not empty (category: equality;
\* activity, season, sustainable: membership); an absent or empty parameter
\* adds no constraint, so with every filter parameter absent every document
\* matches.
C4_PredicateIsConjunction ==
    StoreListOk =>
        /\ ItemIds = IdsOf(SelectSeq(product, LAMBDA d : Selected(obs.args, d)))
        /\ resp.total = NSelected(obs.args, Len(product))

C4_Witness ==
    /\ StoreListOk
    /\ obs.args.category = Some("tents") /\ obs.args.activity = Some("hike")
    /\ obs.args.season = Some("") /\ obs.args.sustainable = None
    /\ Len(product) = 2 /\ Len(resp.items) = 1

\* C5: on the store-backed path, for min_price <= max_price (either bound
\* possibly omitted, a bound possibly 0), every returned document has
\* min_price <= price <= max_price, bounds included, and the documents
\* returned and counted are exactly those the other constraints select whose
\* price is in the range.
C5_PriceRange ==
    (/\ StoreListOk
     /\ (obs.args.min_price.some /\ obs.args.max_price.some =>
            obs.args.min_price.v <= obs.args.max_price.v)) =>
        LET a == obs.args
            others(d) == TextSelected(a, d) /\ SelectedButPriceAndText(a, d)
        IN  /\ \A i \in 1..Len(resp.items) :
                  /\ (a.min_price.some => a.min_price.v <= resp.items[i].price)
                  /\ (a.max_price.some => resp.items[i].price <= a.max_price.v)
            /\ \A d \in Stored : Returned(d) = (others(d) /\ PriceInRange(a, d))
            /\ resp.total = Cardinality({i \in 1..Len(product) :
                                others(product[i]) /\ PriceInRange(a, product[i])})

C5_Witness ==
    /\ StoreListOk
    /\ obs.args.min_price = Some(0) /\ obs.args.max_price = Some(0)
    /\ Len(product) = 2 /\ product[1].price = 0 /\ product[2].price = 2
    /\ Len(resp.items) = 1 /\ resp.items[1].price = 0 /\ resp.total = 1

LiteralFind(q, text) ==
    \E i \in 0..(Len(text) - Len(q)) :
        \A j \in 1..Len(q) : Lower(q[j]) = Lower(text[i + j])

\* C6: for every non-empty q, a product matches the q constraint exactly when q
\* occurs, letter case ignored, as a literal substring of its title or of its
\* description; a product whose title and description are both absent or
\* empty never matches.
C6_LiteralSubstring ==
    (StoreListOk /\ GivenText(obs.args.q)) =>
        \A d \in Stored :
            (SelectedButPriceAndText(obs.args, d) /\ PriceInRange(obs.args, d)) =>
                /\ Returned(d) =
                      (\/ LiteralFind(obs.args.q.v, d.title)
                       \/ (d.description.some /\ LiteralFind(obs.args.q.v, d.description.v)))
                /\ (d.title = <<>> /\ (d.description.some => d.description.v = <<>>)
                        => ~Returned(d))

\* C7: a successful store-backed response is the window of the whole matched
\* set in order: with price_asc every adjacent pair has a.price <= b.price,
\* with price_desc a.price >= b.price, with highest_rated a.rating >=
\* b.rating, and the item at position i of the page holds the key of rank
\* offset + i of the matched set; with any other mode the item at position i
\* is the matched document of rank offset + i in the store's own order.
RankedBelow(M, key, dir, v) ==
    Cardinality({j \in M : IF dir = 1 THEN product[j][key] < v ELSE product[j][key] > v})
RankedUpTo(M, key, dir, v) ==
    Cardinality({j \in M : IF dir = 1 THEN product[j][key] <= v ELSE product[j][key] >= v})

OrderedWindow(key, dir) ==
    LET a == obs.args
        M == SelectedAt(a, Len(product))
        offset == (a.page - 1) * a.page_size
    IN  /\ \A i \in 1..(Len(resp.items) - 1) :
              IF dir = 1 THEN resp.items[i][key] <= resp.items[i + 1][key]
                         ELSE resp.items[i][key] >= resp.items[i + 1][key]
        /\ \A i \in 1..Len(resp.items) :
              /\ RankedBelow(M, key, dir, resp.items[i][key]) < offset + i
              /\ offset + i <= RankedUpTo(M, key, dir, resp.items[i][key])
              /\ \E j \in M : /\ resp.items[i].id = ToString(product[j]._id)
                              /\ resp.items[i][key] = product[j][key]
        /\ \A i, k \in 1..Len(resp.items) : i # k => resp.items[i].id # resp.items[k].id

NaturalWindow ==
    LET a == obs.args
        M == SelectedAt(a, Len(product))
        offset == (a.page - 1) * a.page_size
    IN  \A i \in 1..Len(resp.items) :
            \E j \in M : /\ Cardinality({k \in M : k <= j}) = offset + i
                         /\ resp.items[i].id = ToString(product[j]._id)

C7_SortThenWindow ==
    StoreListOk =>
        CASE obs.args.sort = "price_asc" -> OrderedWindow("price", 1)
          [] obs.args.sort = "price_desc" -> OrderedWindow("price", -1)
          [] obs.args.sort = "highest_rated" -> OrderedWindow("rating", -1)
          [] OTHER -> NaturalWindow

C7_Witness ==
    /\ StoreListOk
    /\ obs.args.sort = "highest_rated" /\ obs.args.category = None
    /\ obs.args.page = 2 /\ obs.args.page_size = 1
    /\ Len(product) = 2 /\ product[1].rating < product[2].rating
    /\ Len(resp.items) = 1 /\ resp.items[1].rating = product[1].rating

\* C8: when a store operation of Create Product, Create Review, List Products
\* (store connected) or List Reviews fails, the request ends with one
\* server-error response that carries the message of the failure and nothing
\* else (no identifier, no items), and the failed operation is not issued
\* again: a create or a review listing issues at most one store operation, a
\* product listing at most its count and its fetch.
C8_StoreFailureIsFatal ==
    (/\ obs.op \in {"create_product", "create_review", "list_products", "get_reviews"}
     /\ obs.raised.some) =>
        /\ resp.op = obs.op
        /\ resp.status = 500
        /\ resp.detail = obs.raised.v
        /\ DOMAIN resp = {"op", "status", "detail"}
        /\ obs.ops <= (IF obs.op = "list_products" THEN 2 ELSE 1)

C8_Witness ==
    /\ obs.op = "list_products" /\ db
    /\ obs.raised = Some(StoreError) /\ obs.ops = 2
    /\ resp.status = 500 /\ resp.detail = StoreError
    /\ NSelected(obs.args, Len(product)) = 2

\* C9: Read Impact Stats always answers with status 200; when the store read
\* raises (no store, or the operation fails), returns no record, or returns
\* a record with a field that cannot be converted, the answer is exactly
\* {trees_planted: 128450, bottles_recycled: 9723450, carbon_offset_kg:
\* 654321.5}; otherwise it holds the converted values of the first record.
Unconvertible(doc) ==
    \/ doc.trees_planted.t \in {"floatstr", "null"}
    \/ doc.bottles_recycled.t \in {"floatstr", "null"}
    \/ doc.carbon_offset_kg.t = "null"

AsInt(x) ==
    CASE x.t = "absent" -> 0
      [] x.t = "float" -> x.n \div 10
      [] OTHER -> x.n

AsTenths(x) ==
    CASE x.t = "absent" -> 0
      [] x.t \in {"int", "intstr"} -> x.n * 10
      [] OTHER -> x.n

C9_ImpactNeverFails ==
    (resp.op = "get_impact" /\ obs.op = "get_impact") =>
        /\ resp.status = 200
        /\ IF obs.raised.some \/ impactstats = <<>> \/ Unconvertible(impactstats[1])
           THEN resp = [op |-> "get_impact", status |-> 200, trees_planted |-> 128450,
                        bottles_recycled |-> 9723450, carbon_offset_kg |-> 6543215]
           ELSE /\ resp.trees_planted = AsInt(impactstats[1].trees_planted)
                /\ resp.bottles_recycled = AsInt(impactstats[1].bottles_recycled)
                /\ resp.carbon_offset_kg = AsTenths(impactstats[1].carbon_offset_kg)

C9_Witness ==
    /\ resp.op = "get_impact" /\ db /\ ~obs.raised.some
    /\ Len(impactstats) = 2
    /\ impactstats[1].trees_planted.t = "int"
    /\ impactstats[1].bottles_recycled.t = "floatstr"
    /\ resp.trees_planted = 128450

\* C10, as claimed: in a successful store-backed response the number of items
\* never exceeds total, and total is the number of documents matching the
\* predicate in the store the items were fetched from.
C10_ItemsWithinTotal ==
    StoreListOk =>
        /\ Len(resp.items) <= resp.total
        /\ resp.total = NSelected(obs.args, Len(product))

\* C10, amended: total is the number of documents that matched when the count
\* ran and the items are among the documents that match when the fetch runs,
\* so the number of items never exceeds total plus the number of matching
\* products created between the two; with no product created in between,
\* the number of items never exceeds total and total is the size of the
\* matched set the items were windowed from.
C10_TotalIsCountAtCountTime ==
    StoreListOk =>
        LET a == obs.args
            created == SelectedAt(a, Len(product)) \ SelectedAt(a, obs.nCount)
        IN  /\ resp.total = NSelected(a, obs.nCount)
            /\ \A i \in 1..Len(resp.items) :
                   \E j \in SelectedAt(a, Len(product)) :
                       resp.items[i].id = ToString(product[j]._id)
            /\ Len(resp.items) <= resp.total + Cardinality(created)
            /\ (obs.nCount = Len(product) =>
                   /\ Len(resp.items) <= resp.total
                   /\ resp.total = NSelected(a, Len(product)))

C10_Witness ==
    /\ StoreListOk
    /\ obs.nCount = 1 /\ Len(product) = 2
    /\ obs.args.category = Some("tents")
    /\ resp.total = 1 /\ Len(resp.items) = 2

====
